---- MODULE Spec2Model ----
(***************************************************************************)
(* A model of src/app.py: a Streamlit script that loads one CSV file       *)
(* through a process-wide cache and, on every user interaction, is         *)
(* re-executed from top to bottom to render one of three pages.            *)
(*                                                                         *)
(* One action of the model is one user interaction followed by the whole   *)
(* script run it triggers.  The run is the composition of the script's     *)
(* blocks, each a step over a run record that carries the script's local   *)
(* variables, the views rendered so far and the exception (if any) that    *)
(* ended the run.                                                          *)
(***************************************************************************)
EXTENDS Integers, Sequences, FiniteSets, TLC

\* ------------------------------------------------------------------ bounds
MaxRows == 2        \* data rows of the CSV file
MaxWrites == 1      \* times the file is rewritten on disk during a session

\* ------------------------------------------------------- program constants
DATA_URL == "processed_industry_data.csv"
all_years_option == "Overall"
bubble_size_column == "Number of Employees"
DefaultIndustries == 5

ExpectedColumns == <<"Year", "ISIC Rev 3", "Industry_Category", "Number of Employees">>
Pages == <<"Introduction", "Dashboard", "Filter Data">>

\* ------------------------------------------------------------- cell values
Years == {2019, 2020}
Industries == {"D15", "D17/18"}
Employees == {1, 2}

\* The category is a coarser grouping of the industry codes: every data row
\* of the files carries the category of its code.
CategoryOf == ("D15" :> "Food") @@ ("D17/18" :> "Textiles")

\* Python orders strings lexicographically; the strings of the model in
\* that order.
StrOrder == <<"D15", "D17/18", "Food", "Textiles">>

StrRank(s) == CHOOSE i \in DOMAIN StrOrder : StrOrder[i] = s

Range(f) == {f[i] : i \in DOMAIN f}

BoundedSeq(S, n) == UNION {[1..k -> S] : k \in 0..n}

\* ---------------------------------------------------------- Python values
\* A Python value that is compared with values of another type (a selectbox
\* over ["Overall", 2019, 2020] returns a str or an int) carries its type.
PyInt(n) == [type |-> "int", val |-> n]
PyStr(s) == [type |-> "str", val |-> s]
PyNone == [type |-> "NoneType", val |-> "None"]

\* a == b for Python scalars: values of different types are unequal.
py_eq(a, b) == a.type = b.type /\ a.val = b.val

\* ------------------------------------------------------------- DataFrames
\* A DataFrame: the ordered column labels, the dtype of each column and the
\* rows, each a function from the column labels to the cell values.
DataFrame(cols, dtypes, rows) == [columns |-> cols, dtypes |-> dtypes, rows |-> rows]

IntColumns == {"Year", "Number of Employees"}

FullRows ==
    {("Year" :> y) @@ ("ISIC Rev 3" :> i) @@ ("Industry_Category" :> CategoryOf[i])
        @@ ("Number of Employees" :> e) :
        y \in Years, i \in Industries, e \in Employees}

Restrict(r, cols) == [c \in Range(cols) |-> r[c]]

Without(cols, c) == SelectSeq(cols, LAMBDA x : x # c)

\* The headers of the files that lack one of the expected columns.
HeadersMissingOne == {Without(ExpectedColumns, c) : c \in Range(ExpectedColumns)}

\* The tables a file may hold: up to MaxRows rows under one of the headers.
FramesOver(cols) ==
    {DataFrame(cols,
               [c \in Range(cols) |-> IF c \in IntColumns /\ rows # <<>> THEN "int64" ELSE "object"],
               rows) :
        rows \in BoundedSeq({Restrict(r, cols) : r \in FullRows}, MaxRows)}

has_column(T, c) == \E j \in DOMAIN T.columns : T.columns[j] = c

\* T[c]: the Series of a column (the caller has checked has_column).
getitem(T, c) == [i \in 1..Len(T.rows) |-> T.rows[i][c]]

\* T[mask]: boolean indexing keeps the rows whose mask entry is True.
RECURSIVE mask_rows(_, _, _)
mask_rows(rows, mask, i) ==
    IF i > Len(rows) THEN <<>>
    ELSE (IF mask[i] THEN <<rows[i]>> ELSE <<>>) \o mask_rows(rows, mask, i + 1)

getitem_mask(T, mask) == DataFrame(T.columns, T.dtypes, mask_rows(T.rows, mask, 1))

\* The Python scalar in a cell of column c.
cell(T, c, v) == IF T.dtypes[c] = "int64" THEN PyInt(v) ELSE PyStr(v)

\* T[c] == v: the boolean mask of the rows whose cell equals the scalar.
series_eq(T, c, v) == [i \in 1..Len(T.rows) |-> py_eq(cell(T, c, T.rows[i][c]), v)]

\* isin with an empty selection read as "no restriction".
isin_empty_is_all(s, values) == [i \in DOMAIN s |-> values = {} \/ s[i] \in values]

\* Series.isin(values)
isin(s, values) == [i \in DOMAIN s |-> s[i] \in values]

\* Series.unique(): the distinct values in order of first appearance.
RECURSIVE unique_from(_, _, _)
unique_from(s, i, seen) ==
    IF i > Len(s) THEN <<>>
    ELSE IF s[i] \in seen THEN unique_from(s, i + 1, seen)
    ELSE <<s[i]>> \o unique_from(s, i + 1, seen \cup {s[i]})

unique(s) == unique_from(s, 1, {})

\* The order sorted() puts on values: numeric on ints, lexicographic on strs.
Rank(kind, v) == IF kind = "int" THEN v ELSE StrRank(v)

\* sorted(iterable): insertion of each element before the first larger one.
RECURSIVE insert_sorted(_, _, _)
insert_sorted(x, sorted_seq, kind) ==
    IF sorted_seq = <<>> THEN <<x>>
    ELSE IF Rank(kind, x) < Rank(kind, Head(sorted_seq)) THEN <<x>> \o sorted_seq
    ELSE <<Head(sorted_seq)>> \o insert_sorted(x, Tail(sorted_seq), kind)

RECURSIVE sorted_by(_, _)
sorted_by(s, kind) ==
    IF s = <<>> THEN <<>>
    ELSE insert_sorted(s[Len(s)], sorted_by(SubSeq(s, 1, Len(s) - 1), kind), kind)

\* sorted(T[c].unique())
sorted_unique(T, c) == sorted_by(unique(getitem(T, c)), IF T.dtypes[c] = "int64" THEN "int" ELSE "str")

\* Series.sum(): 0 on an empty Series.
RECURSIVE series_sum(_)
series_sum(s) == IF Len(s) = 0 THEN 0 ELSE s[1] + series_sum(Tail(s))

\* Series.mean(): NaN on an empty Series, else the quotient sum / count.
series_mean(s) ==
    IF Len(s) = 0 THEN [nan |-> TRUE, num |-> 0, den |-> 1]
    ELSE [nan |-> FALSE, num |-> series_sum(s), den |-> Len(s)]

\* Series.cumsum(): the running totals, in the order of the Series.
RECURSIVE cumsum_from(_, _, _)
cumsum_from(s, i, acc) ==
    IF i > Len(s) THEN <<>>
    ELSE <<acc + s[i]>> \o cumsum_from(s, i + 1, acc + s[i])

cumsum(s) == cumsum_from(s, 1, 0)

\* The sum of val over the rows of one group.
RECURSIVE group_sum(_, _, _, _)
group_sum(rows, key, k, val) ==
    IF rows = <<>> THEN 0
    ELSE (IF rows[1][key] = k THEN rows[1][val] ELSE 0) + group_sum(Tail(rows), key, k, val)

\* A Series with an index (the result of a groupby): labels and values.
\* DataFrame.groupby(key)[val].sum(): one entry per distinct key, the keys
\* sorted ascending, each with the sum of val over the rows of that key.
groupby_sum(T, key, val) ==
    LET keys == sorted_unique(T, key)
    IN [index |-> keys, values |-> [i \in DOMAIN keys |-> group_sum(T.rows, key, keys[i], val)]]

\* Series.cumsum() on an indexed Series keeps the index.
indexed_cumsum(g) == [index |-> g.index, values |-> cumsum(g.values)]

\* Series.reset_index(): the index becomes the column key.
reset_index(g, key, val, dtypes) ==
    DataFrame(<<key, val>>, [c \in {key, val} |-> dtypes[c]], [i \in DOMAIN g.index |-> (key :> g.index[i]) @@ (val :> g.values[i])])

\* -------------------------------------------------------------- formatting
Digits == <<"0", "1", "2", "3", "4", "5", "6", "7", "8", "9">>

\* str(n) for a non-negative int.
RECURSIVE str(_)
str(n) == IF n < 10 THEN Digits[n + 1] ELSE str(n \div 10) \o Digits[(n % 10) + 1]

\* The ',' option of the format mini-language: groups of three digits.
RECURSIVE group_thousands(_)
group_thousands(n) ==
    IF n < 1000 THEN str(n)
    ELSE group_thousands(n \div 1000) \o "," \o Digits[((n \div 100) % 10) + 1]
            \o Digits[((n \div 10) % 10) + 1] \o Digits[(n % 10) + 1]

\* f"{x:,.2f}" for x = num / den >= 0, or NaN: two decimals, rounded to the
\* nearest (no quotient of the model lies halfway between two of them).
format_2f(x) ==
    IF x.nan THEN "nan"
    ELSE LET cents == (200 * x.num + x.den) \div (2 * x.den)
         IN group_thousands(cents \div 100) \o "." \o Digits[((cents \div 10) % 10) + 1]
                \o Digits[(cents % 10) + 1]

Number(n) == [nan |-> FALSE, num |-> n, den |-> 1]

\* str() of a selectbox value inside an f-string.
py_str(v) == IF v.type = "int" THEN str(v.val) ELSE v.val

\* str.replace('/', '_') on the strings of the model.
replace_slash(s) == IF s = "D17/18" THEN "D17_18" ELSE s

\* ------------------------------------------------------------------- CSV
\* A CSV text is kept as the sequence of its lines, each line the sequence
\* of its comma-separated fields.

\* DataFrame.to_csv(index=False): the header line and one line per row.
cell_text(T, c, v) == IF T.dtypes[c] = "int64" THEN str(v) ELSE v

to_csv(T) ==
    <<T.columns>> \o
    [i \in 1..Len(T.rows) |-> [j \in DOMAIN T.columns |-> cell_text(T, T.columns[j], T.rows[i][T.columns[j]])]]

\* The ints a field of the model's files can denote.
Numerals == Years \cup Employees

is_numeral(t) == \E n \in Numerals : str(n) = t

int(t) == CHOOSE n \in Numerals : str(n) = t

\* pd.read_csv(file_path): the first line names the columns; a column is
\* int64 when it has values and every one of them is a numeral, else object.
read_csv(text) ==
    LET header == text[1]
        body == Tail(text)
        col(c) == CHOOSE j \in DOMAIN header : header[j] = c
        dtypes == [c \in Range(header) |->
                     IF body # <<>> /\ \A i \in DOMAIN body : is_numeral(body[i][col(c)])
                     THEN "int64" ELSE "object"]
    IN DataFrame(header, dtypes,
                 [i \in DOMAIN body |->
                    [c \in Range(header) |->
                       IF dtypes[c] = "int64" THEN int(body[i][col(c)]) ELSE body[i][col(c)]]])

\* The contents the file at DATA_URL may have: every expected column, and
\* one of them missing.
Files == {to_csv(F) : F \in FramesOver(ExpectedColumns)}

FilesMissingOne == {to_csv(F) : F \in UNION {FramesOver(cols) : cols \in HeadersMissingOne}}

\* ----------------------------------------------------------------- cache
\* load_data without the cache decorator: every call reads the file.
load_data_uncached(c, text, file_path) ==
    [cache |-> (file_path :> read_csv(text)) @@ c, value |-> read_csv(text), read |-> TRUE]

\* @st.cache_data keeps one entry per argument value for the life of the
\* process: a call with a cached path returns the stored value and does not
\* run the function body.
load_data(c, text, file_path) ==
    IF file_path \in DOMAIN c
    THEN [cache |-> c, value |-> c[file_path], read |-> FALSE]
    ELSE [cache |-> (file_path :> read_csv(text)) @@ c, value |-> read_csv(text), read |-> TRUE]

\* ------------------------------------------------------------ one script run
\* The state of a script run: the exception that ended it ("none" while it
\* runs), the module global df, the widgets, views, error messages, metrics
\* and download buttons it has put on the page, and its other variables by
\* name.  A widget call returns the value the session holds for the widget,
\* or the default when the session holds none.
EmptyFcn == [x \in {} |-> x]

widget(s, sess, label, default) ==
    [s EXCEPT !.widgets = (label :> (IF label \in DOMAIN sess THEN sess[label] ELSE default)) @@ @]

assign(s, f) == [s EXCEPT !.locals = f @@ @]
raise(s, e) == [s EXCEPT !.exc = e]
show(s, view) == [s EXCEPT !.views = @ \cup {view}]
st_error(s, msg) == [s EXCEPT !.errors = @ \cup {msg}]
st_metric(s, label, value) == [s EXCEPT !.metrics = Append(@, [label |-> label, value |-> value])]
st_download_button(s, label, data, file_name) ==
    [s EXCEPT !.buttons = (label :> [data |-> data, file_name |-> file_name]) @@ @]

\* page = st.sidebar.radio("Navigate", [...]): the first option by default.
Navigation(s, sess) ==
    LET a == widget(s, sess, "Navigate", Pages[1])
    IN assign(a, "page" :> a.widgets["Navigate"])

Introduction(s) == show(s, "Introduction")

\* The two optional views of the loaded table.
Explore(s, sess) ==
    LET a == widget(s, sess, "Show Raw Data", FALSE)
        b == IF a.widgets["Show Raw Data"] THEN show(a, "Raw Data") ELSE a
        c == widget(b, sess, "Show Data Summary", FALSE)
    IN IF c.widgets["Show Data Summary"] THEN show(c, "Data Summary") ELSE c

\* The year filter without the "Overall" case.
df_kpi_filtered_no_sentinel(df, kpi_year_filter) ==
    getitem_mask(df, series_eq(df, "Year", kpi_year_filter))

\* df if kpi_year_filter == all_years_option else df[df['Year'] == kpi_year_filter]
df_kpi_filtered(df, kpi_year_filter) ==
    IF py_eq(kpi_year_filter, PyStr(all_years_option)) THEN df
    ELSE getitem_mask(df, series_eq(df, "Year", kpi_year_filter))

\* The year filter assigned back to the global: df = df[df['Year'] == ...].
KpiFilter_in_place(s, sess) ==
    IF s.exc # "none" THEN s
    ELSE IF ~has_column(s.df, "Year") THEN raise(s, "KeyError")
    ELSE LET unique_years == sorted_unique(s.df, "Year")
             year_options == <<PyStr(all_years_option)>> \o
                             [i \in DOMAIN unique_years |-> cell(s.df, "Year", unique_years[i])]
             a == widget(s, sess, "Select Year for KPIs", year_options[1])
             kpi_year_filter == a.widgets["Select Year for KPIs"]
             b == [a EXCEPT !.df = df_kpi_filtered(a.df, kpi_year_filter)]
         IN assign(b, ("year_options" :> year_options)
                        @@ ("kpi_year_filter" :> kpi_year_filter)
                        @@ ("df_kpi_filtered" :> b.df))

KpiFilter(s, sess) ==
    IF s.exc # "none" THEN s
    ELSE IF ~has_column(s.df, "Year") THEN raise(s, "KeyError")
    ELSE LET unique_years == sorted_unique(s.df, "Year")
             year_options == <<PyStr(all_years_option)>> \o
                             [i \in DOMAIN unique_years |-> cell(s.df, "Year", unique_years[i])]
             a == widget(s, sess, "Select Year for KPIs", year_options[1])
             kpi_year_filter == a.widgets["Select Year for KPIs"]
         IN assign(a, ("year_options" :> year_options)
                        @@ ("kpi_year_filter" :> kpi_year_filter)
                        @@ ("df_kpi_filtered" :> df_kpi_filtered(a.df, kpi_year_filter)))

total_value(T) == series_sum(getitem(T, "Number of Employees"))

avg_value(T) == series_mean(getitem(T, "Number of Employees"))

latest_year_value(T) == series_sum(getitem(T, "Number of Employees"))

Kpis(s) ==
    IF s.exc # "none" THEN s
    ELSE IF ~has_column(s.locals["df_kpi_filtered"], "Number of Employees") THEN raise(s, "KeyError")
    ELSE LET T == s.locals["df_kpi_filtered"]
             y == s.locals["kpi_year_filter"]
             overall == py_eq(y, PyStr(all_years_option))
             a == st_metric(s,
                    IF overall THEN "Total Employees (Overall)"
                    ELSE "Total Employees (" \o py_str(y) \o ")",
                    format_2f(Number(total_value(T))))
             b == st_metric(a,
                    IF overall THEN "Average Employees per Record (Overall)"
                    ELSE "Average Employees per Record (" \o py_str(y) \o ")",
                    format_2f(avg_value(T)))
             c == st_metric(b,
                    IF ~overall THEN "Total Employees in " \o py_str(y)
                    ELSE "Total Employees (Overall)",
                    format_2f(Number(latest_year_value(T))))
         IN assign(c, ("total_value" :> total_value(T)) @@ ("avg_value" :> avg_value(T))
                        @@ ("latest_year_value" :> latest_year_value(T)))

\* df.groupby('Year')['Number of Employees'].sum().reset_index()
yearly_value(df) ==
    reset_index(groupby_sum(df, "Year", "Number of Employees"), "Year", "Number of Employees", df.dtypes)

Tab1(s) ==
    IF s.exc # "none" THEN s
    ELSE IF has_column(s.df, "Year") /\ has_column(s.df, "Number of Employees")
    THEN show(assign(s, "yearly_value" :> yearly_value(s.df)), "Time Series")
    ELSE st_error(s, "Missing 'Year' or 'Number of Employees' column.")

industry_value(df) ==
    reset_index(groupby_sum(df, "ISIC Rev 3", "Number of Employees"),
                "ISIC Rev 3", "Number of Employees", df.dtypes)

\* sorted(df['ISIC Rev 3'].unique())[:5]
default_industries(df) ==
    LET options == sorted_unique(df, "ISIC Rev 3")
    IN Range(SubSeq(options, 1, IF Len(options) < DefaultIndustries THEN Len(options) ELSE DefaultIndustries))

\* The industry comparison drawn from the KPI table, the selection unused.
df_filtered_industries_unfiltered(T, selected_industries) == T

\* df_kpi_filtered[df_kpi_filtered['ISIC Rev 3'].isin(selected_industries)]
df_filtered_industries(T, selected_industries) ==
    getitem_mask(T, isin(getitem(T, "ISIC Rev 3"), selected_industries))

Tab2(s, sess) ==
    IF s.exc # "none" THEN s
    ELSE LET a == IF has_column(s.df, "ISIC Rev 3") /\ has_column(s.df, "Number of Employees")
                  THEN show(assign(s, "industry_value" :> industry_value(s.df)), "Industry Comparison")
                  ELSE st_error(s, "Missing necessary columns.")
         IN IF ~has_column(a.df, "ISIC Rev 3") THEN st_error(a, "Please select valid industries.")
            ELSE LET b == widget(a, sess, "Compare Industries", default_industries(a.df))
                     selected_industries == b.widgets["Compare Industries"]
                 IN show(assign(b, ("industry_options" :> Range(sorted_unique(b.df, "ISIC Rev 3")))
                                     @@ ("selected_industries" :> selected_industries)
                                     @@ ("df_filtered_industries" :>
                                           df_filtered_industries(b.locals["df_kpi_filtered"], selected_industries))),
                         "Selected Industry Comparison")

\* df_kpi_filtered[df_kpi_filtered['Industry_Category'].isin(selected_types_pie)]
\*     .groupby('Industry_Category')['Number of Employees'].sum().reset_index()
type_value_pie(T, selected_types_pie) ==
    reset_index(groupby_sum(getitem_mask(T, isin(getitem(T, "Industry_Category"), selected_types_pie)),
                            "Industry_Category", "Number of Employees"),
                "Industry_Category", "Number of Employees", T.dtypes)

Tab3(s, sess) ==
    IF s.exc # "none" THEN s
    ELSE IF ~has_column(s.df, "Industry_Category") THEN raise(s, "KeyError")
    ELSE LET options == Range(unique(getitem(s.df, "Industry_Category")))
             a == widget(s, sess, "Select Industry Category for Pie Chart", options)
             selected_types_pie == a.widgets["Select Industry Category for Pie Chart"]
             T == a.locals["df_kpi_filtered"]
         IN IF has_column(T, "Industry_Category") /\ has_column(T, "Number of Employees")
            THEN show(assign(a, ("category_options" :> options)
                                  @@ ("selected_types_pie" :> selected_types_pie)
                                  @@ ("type_value_pie" :> type_value_pie(T, selected_types_pie))),
                      "Distribution")
            ELSE st_error(assign(a, ("category_options" :> options)
                                      @@ ("selected_types_pie" :> selected_types_pie)),
                          "Ensure the 'Industry_Category' and 'Number of Employees' columns exist.")

\* The yearly sums without the running total.
cumulative_value_no_cumsum(T) ==
    reset_index(groupby_sum(T, "Year", "Number of Employees"),
                "Year", "Number of Employees", T.dtypes)

\* df_kpi_filtered.groupby('Year')['Number of Employees'].sum().cumsum().reset_index()
cumulative_value(T) ==
    reset_index(indexed_cumsum(groupby_sum(T, "Year", "Number of Employees")),
                "Year", "Number of Employees", T.dtypes)

Tab5(s) ==
    IF s.exc # "none" THEN s
    ELSE LET T == s.locals["df_kpi_filtered"]
         IN IF has_column(T, "Year") /\ has_column(T, "Number of Employees")
            THEN show(assign(s, "cumulative_value" :> cumulative_value(T)), "Area Chart")
            ELSE st_error(s, "Check column names.")

category_value(T) ==
    reset_index(groupby_sum(T, "Industry_Category", "Number of Employees"),
                "Industry_Category", "Number of Employees", T.dtypes)

Tab6(s) ==
    IF s.exc # "none" THEN s
    ELSE LET T == s.locals["df_kpi_filtered"]
         IN IF has_column(T, "Industry_Category") /\ has_column(T, "Number of Employees")
            THEN show(assign(s, "category_value" :> category_value(T)), "Category Summary")
            ELSE st_error(s, "Missing 'Industry_Category' or 'Number of Employees'.")

\* df_kpi_filtered.copy()
df_bubble(T) == T

\* px.scatter raises ValueError, which the except KeyError clause does not
\* catch, when an argument names a column the frame does not have.
Tab7(s) ==
    IF s.exc # "none" THEN s
    ELSE LET T == df_bubble(s.locals["df_kpi_filtered"])
         IN IF \A c \in {"Year", "Number of Employees", bubble_size_column, "Industry_Category", "ISIC Rev 3"} :
                  has_column(T, c)
            THEN show(assign(s, "df_bubble" :> T), "Bubble Chart")
            ELSE raise(assign(s, "df_bubble" :> T), "ValueError")

Dashboard(s, sess) ==
    Tab7(Tab6(Tab5(Tab3(Tab2(Tab1(Kpis(KpiFilter(Explore(s, sess), sess))), sess), sess))))

\* df[df['Year'] == year_filter]
df_filtered_year(df, year_filter) == getitem_mask(df, series_eq(df, "Year", year_filter))

\* df[df['ISIC Rev 3'] == industry_filter]
df_filtered_industry(df, industry_filter) == getitem_mask(df, series_eq(df, "ISIC Rev 3", industry_filter))

\* st.selectbox(label, options, index): the option at index, or None when
\* there are no options.
selectbox_default(options, index) == IF Len(options) = 0 THEN PyNone ELSE options[index + 1]

FilterYear(s, sess) ==
    IF s.exc # "none" THEN s
    ELSE IF ~has_column(s.df, "Year") THEN raise(s, "KeyError")
    ELSE LET unique_years == sorted_unique(s.df, "Year")
             options == [i \in DOMAIN unique_years |-> cell(s.df, "Year", unique_years[i])]
             a == widget(s, sess, "Select Year", selectbox_default(options, Len(unique_years) - 1))
             year_filter == a.widgets["Select Year"]
         IN assign(a, ("year_options" :> options) @@ ("year_filter" :> year_filter)
                        @@ ("df_filtered_year" :> df_filtered_year(a.df, year_filter)))

\* The industry filter applied to the year view instead of the loaded table.
FilterIndustry_composed(s, sess) ==
    IF s.exc # "none" THEN s
    ELSE IF ~has_column(s.df, "ISIC Rev 3") THEN raise(s, "KeyError")
    ELSE LET unique_industries == sorted_unique(s.df, "ISIC Rev 3")
             options == [i \in DOMAIN unique_industries |-> cell(s.df, "ISIC Rev 3", unique_industries[i])]
             a == widget(s, sess, "Select Industry", selectbox_default(options, 0))
             industry_filter == a.widgets["Select Industry"]
         IN assign(a, ("industry_options" :> options) @@ ("industry_filter" :> industry_filter)
                        @@ ("df_filtered_industry" :>
                              df_filtered_industry(a.locals["df_filtered_year"], industry_filter)))

FilterIndustry(s, sess) ==
    IF s.exc # "none" THEN s
    ELSE IF ~has_column(s.df, "ISIC Rev 3") THEN raise(s, "KeyError")
    ELSE LET unique_industries == sorted_unique(s.df, "ISIC Rev 3")
             options == [i \in DOMAIN unique_industries |-> cell(s.df, "ISIC Rev 3", unique_industries[i])]
             a == widget(s, sess, "Select Industry", selectbox_default(options, 0))
             industry_filter == a.widgets["Select Industry"]
         IN assign(a, ("industry_options" :> options) @@ ("industry_filter" :> industry_filter)
                        @@ ("df_filtered_industry" :> df_filtered_industry(a.df, industry_filter)))

FilterViews(s) ==
    IF s.exc # "none" THEN s
    ELSE show(show(s, "Filtered Data for Year"), "Filtered Data for Industry")

\* df_filtered_year.to_csv(index=False).encode('utf-8')
csv_year(T) == to_csv(T)

\* df_filtered_industry.to_csv(index=False).encode('utf-8')
csv_industry(T) == to_csv(T)

\* industry_filter.replace raises AttributeError when the selectbox had no
\* option to return.
Downloads(s) ==
    IF s.exc # "none" THEN s
    ELSE LET a == st_download_button(
                    assign(s, "csv_year" :> csv_year(s.locals["df_filtered_year"])),
                    "Download Filtered Year Data",
                    csv_year(s.locals["df_filtered_year"]),
                    "filtered_year_" \o py_str(s.locals["year_filter"]) \o "_data.csv")
             b == assign(a, "csv_industry" :> csv_industry(a.locals["df_filtered_industry"]))
         IN IF b.locals["industry_filter"].type # "str" THEN raise(b, "AttributeError")
            ELSE st_download_button(b, "Download Filtered Industry Data",
                    csv_industry(b.locals["df_filtered_industry"]),
                    "filtered_industry_" \o replace_slash(b.locals["industry_filter"].val) \o "_data.csv")

FilterData(s, sess) == Downloads(FilterViews(FilterIndustry(FilterYear(s, sess), sess)))

\* One execution of the script, from the cache and the file it finds and
\* the widget values of the session: the cache it leaves, whether it read
\* the file, and the run.
Script(c, text, sess) ==
    LET loaded == load_data(c, text, DATA_URL)
        start == [exc |-> "none", df |-> loaded.value, widgets |-> EmptyFcn,
                  views |-> {}, errors |-> {}, metrics |-> <<>>, buttons |-> EmptyFcn,
                  locals |-> EmptyFcn]
        nav == Navigation(start, sess)
        page == nav.locals["page"]
    IN [cache |-> loaded.cache, read |-> loaded.read,
        run |-> IF page = "Introduction" THEN Introduction(nav)
                ELSE IF page = "Dashboard" THEN Dashboard(nav, sess)
                ELSE FilterData(nav, sess)]

\* ------------------------------------------------------------------ state
VARIABLES
    file,       \* the content of the file at DATA_URL
    writes,     \* how many times the file has been rewritten
    cache,      \* the entries of load_data's cache, by path
    reads,      \* how many times pd.read_csv has read the file
    served,     \* how many rewrites the file had seen at the last load_data call
    session,    \* the values of the widgets on the page
    run,        \* the last script run: what it left on the page and in its variables
    download    \* what the last interaction handed to the browser

vars == <<file, writes, cache, reads, served, session, run, download>>

NoDownload == [data |-> <<>>, file_name |-> ""]

\* The session opens with a first script run on an empty cache.
Start(files) ==
    /\ file \in files
    /\ writes = 0
    /\ LET r == Script(EmptyFcn, file, EmptyFcn)
       IN /\ cache = r.cache
          /\ reads = (IF r.read THEN 1 ELSE 0)
          /\ served = writes
          /\ run = r.run
          /\ session = r.run.widgets
    /\ download = NoDownload

Init == Start(Files)

\* Every interaction re-executes the script with the new widget values; the
\* widgets the run does not render lose their values.
Rerun(sess) ==
    \E r \in {Script(cache, file, sess)} :
       /\ cache' = r.cache
       /\ reads' = reads + (IF r.read THEN 1 ELSE 0)
       /\ served' = writes
       /\ run' = r.run
       /\ session' = r.run.widgets
       /\ UNCHANGED <<file, writes>>

Set(label, value) == [session EXCEPT ![label] = value]

Toggle(label, option) ==
    Set(label, IF option \in session[label] THEN session[label] \ {option}
               ELSE session[label] \cup {option})

Navigate ==
    \E p \in Range(Pages) :
        /\ p # session["Navigate"]
        /\ Rerun(Set("Navigate", p))
        /\ download' = NoDownload

ShowRawData ==
    /\ "Show Raw Data" \in DOMAIN session
    /\ Rerun(Set("Show Raw Data", ~session["Show Raw Data"]))
    /\ download' = NoDownload

ShowDataSummary ==
    /\ "Show Data Summary" \in DOMAIN session
    /\ Rerun(Set("Show Data Summary", ~session["Show Data Summary"]))
    /\ download' = NoDownload

SelectKpiYear ==
    /\ "Select Year for KPIs" \in DOMAIN session
    /\ \E v \in Range(run.locals["year_options"]) :
        /\ v # session["Select Year for KPIs"]
        /\ Rerun(Set("Select Year for KPIs", v))
    /\ download' = NoDownload

CompareIndustries ==
    /\ "Compare Industries" \in DOMAIN session
    /\ \E v \in run.locals["industry_options"] : Rerun(Toggle("Compare Industries", v))
    /\ download' = NoDownload

SelectPieCategory ==
    /\ "Select Industry Category for Pie Chart" \in DOMAIN session
    /\ \E v \in run.locals["category_options"] :
        Rerun(Toggle("Select Industry Category for Pie Chart", v))
    /\ download' = NoDownload

SelectYear ==
    /\ "Select Year" \in DOMAIN session
    /\ \E v \in Range(run.locals["year_options"]) :
        /\ v # session["Select Year"]
        /\ Rerun(Set("Select Year", v))
    /\ download' = NoDownload

SelectIndustry ==
    /\ "Select Industry" \in DOMAIN session
    /\ \E v \in Range(run.locals["industry_options"]) :
        /\ v # session["Select Industry"]
        /\ Rerun(Set("Select Industry", v))
    /\ download' = NoDownload

\* A click on a download button hands the button's data to the browser and
\* re-executes the script.
DownloadYear ==
    /\ "Download Filtered Year Data" \in DOMAIN run.buttons
    /\ download' = run.buttons["Download Filtered Year Data"]
    /\ Rerun(session)

DownloadIndustry ==
    /\ "Download Filtered Industry Data" \in DOMAIN run.buttons
    /\ download' = run.buttons["Download Filtered Industry Data"]
    /\ Rerun(session)

Next ==
    \/ Navigate
    \/ ShowRawData
    \/ ShowDataSummary
    \/ SelectKpiYear
    \/ CompareIndustries
    \/ SelectPieCategory
    \/ SelectYear
    \/ SelectIndustry
    \/ DownloadYear
    \/ DownloadIndustry

Spec == Init /\ [][Next]_vars

\* The app over a file that lacks one of the expected columns.
InitMissing == Start(FilesMissingOne)

SpecMissing == InitMissing /\ [][Next]_vars

\* ------------------------------------------- the file changing under the app
\* The user reloads the page: the script runs again with the same widgets.
Refresh ==
    /\ Rerun(session)
    /\ download' = NoDownload

\* What another process may leave in the file: the last data row dropped,
\* or repeated.
Rewrites(text) ==
    {SubSeq(text, 1, Len(text) - 1) : k \in {n \in {1} : Len(text) > 1}}
        \cup {Append(text, text[Len(text)]) : k \in {n \in {1} : Len(text) > 1 /\ Len(text) - 1 < MaxRows}}

WriteFile ==
    /\ writes < MaxWrites
    /\ file' \in Rewrites(file)
    /\ writes' = writes + 1
    /\ UNCHANGED <<cache, reads, served, session, run, download>>

NextReload ==
    \/ Navigate
    \/ Refresh
    \/ WriteFile

SpecReload == Init /\ [][NextReload]_vars

\* ------------------------------------------------------------------ claims
\* What the claims speak of, read off the last run.
page == run.widgets["Navigate"]
df == run.df
has(name) == name \in DOMAIN run.locals
local(name) == run.locals[name]

RECURSIVE Total(_)
Total(rows) ==
    IF rows = <<>> THEN 0
    ELSE rows[Len(rows)]["Number of Employees"] + Total(SubSeq(rows, 1, Len(rows) - 1))

\* The records of T of the selected year: all of them under "Overall".
InYear(r, y) == y.type = "str" \/ r["Year"] = y.val

\* C1: the KPI table is the loaded table itself under "Overall", and else
\* exactly the records of the selected year, in their order in the table.
C1_YearFilter ==
    has("df_kpi_filtered") =>
        /\ local("kpi_year_filter") = PyStr(all_years_option) => local("df_kpi_filtered") = df
        /\ local("kpi_year_filter") # PyStr(all_years_option) =>
            /\ local("kpi_year_filter").type = "int"
            /\ local("df_kpi_filtered").columns = df.columns
            /\ local("df_kpi_filtered").rows =
                 SelectSeq(df.rows, LAMBDA r : r["Year"] = local("kpi_year_filter").val)

\* A year is selected that keeps some records of the table and drops others.
C1_Witness ==
    /\ has("df_kpi_filtered")
    /\ local("kpi_year_filter").type = "int"
    /\ local("df_kpi_filtered").rows # <<>>
    /\ Len(local("df_kpi_filtered").rows) < Len(df.rows)

\* C2: year filter then membership filter gives the records that the
\* membership filter then the year filter gives, and both are the records of
\* the table with year = y AND key in S (industry comparison and pie views).
C2_FilterComposition ==
    /\ has("df_filtered_industries") =>
        LET y == local("kpi_year_filter")
            S == local("selected_industries")
            both == SelectSeq(df.rows, LAMBDA r : InYear(r, y) /\ r["ISIC Rev 3"] \in S)
        IN /\ local("df_filtered_industries").rows = both
           /\ df_kpi_filtered(df_filtered_industries(df, S), y).rows = both
    /\ has("type_value_pie") =>
        LET y == local("kpi_year_filter")
            S == local("selected_types_pie")
            both == SelectSeq(df.rows, LAMBDA r : InYear(r, y) /\ r["Industry_Category"] \in S)
            member_first == getitem_mask(df, isin(getitem(df, "Industry_Category"), S))
        IN /\ local("type_value_pie") = category_value(DataFrame(df.columns, df.dtypes, both))
           /\ df_kpi_filtered(member_first, y).rows = both

\* Both filters bite: a year and a proper part of the industries and of the
\* categories are selected, and each filter alone keeps more than both.
C2_Witness ==
    /\ has("df_filtered_industries") /\ has("type_value_pie")
    /\ local("kpi_year_filter").type = "int"
    /\ Len(local("df_filtered_industries").rows) < Len(local("df_kpi_filtered").rows)
    /\ Len(local("df_filtered_industries").rows) < Len(df_filtered_industries(df, local("selected_industries")).rows)
    /\ local("selected_types_pie") # {}
    /\ local("selected_types_pie") # local("category_options")

\* C3: with no industry selected the industry-comparison table is empty, and
\* with no category selected the pie aggregation has no groups.
C3_EmptySelection ==
    /\ (has("df_filtered_industries") /\ local("selected_industries") = {})
            => local("df_filtered_industries").rows = <<>>
    /\ (has("type_value_pie") /\ local("selected_types_pie") = {})
            => local("type_value_pie").rows = <<>>

\* Nothing is selected in either multiselect over a KPI table with records.
C3_Witness ==
    /\ has("df_filtered_industries") /\ has("type_value_pie")
    /\ local("df_kpi_filtered").rows # <<>>
    /\ local("selected_industries") = {}
    /\ local("selected_types_pie") = {}

\* C4: the third KPI is the sum of the value column over the records of the
\* latest year present in the KPI table.
C4_LatestPeriodTotal ==
    has("latest_year_value") =>
        LET rows == local("df_kpi_filtered").rows
            latest == SelectSeq(rows, LAMBDA r : \A i \in DOMAIN rows : rows[i]["Year"] <= r["Year"])
        IN local("latest_year_value") = Total(latest)

\* The views of the Dashboard and the columns each one reads.
ViewColumns ==
    ("Time Series" :> {"Year", "Number of Employees"})
    @@ ("Industry Comparison" :> {"ISIC Rev 3", "Number of Employees"})
    @@ ("Selected Industry Comparison" :> {"Year", "ISIC Rev 3", "Number of Employees"})
    @@ ("Distribution" :> {"Year", "Industry_Category", "Number of Employees"})
    @@ ("Area Chart" :> {"Year", "Number of Employees"})
    @@ ("Category Summary" :> {"Year", "Industry_Category", "Number of Employees"})
    @@ ("Bubble Chart" :> {"Year", "ISIC Rev 3", "Industry_Category", "Number of Employees"})

\* C5: with one expected column missing, the Dashboard run reaches its end
\* and renders every view that does not read the missing column.
C5_MissingColumnScoped ==
    (page = "Dashboard" /\ df.columns \in HeadersMissingOne) =>
        /\ run.exc = "none"
        /\ \A v \in DOMAIN ViewColumns : ViewColumns[v] \subseteq Range(df.columns) => v \in run.views

\* C6: over an empty KPI table the run does not raise and the average KPI
\* reads "no data".
C6_AverageNoData ==
    (page = "Dashboard" /\ df.columns = ExpectedColumns /\ df.rows = <<>>) =>
        /\ run.exc = "none"
        /\ Len(run.metrics) = 3
        /\ run.metrics[2].value = "no data"

\* C7: the file is read at most once; once the path is cached no later run
\* reads the file, the cache entry never changes, and every later call
\* returns the cached table.
C7_LoadCaching ==
    /\ [](reads <= 1)
    /\ [][(DATA_URL \in DOMAIN cache) =>
            (reads' = reads /\ cache' = cache /\ run'.df = cache[DATA_URL])]_vars

\* A call of load_data made after the file was rewritten returned the table
\* of the first read, which the file no longer holds.
C7_Witness ==
    /\ served > 0
    /\ reads = 1
    /\ df # read_csv(file)
    /\ df = cache[DATA_URL]

\* C8: after any page visits and widget selections the loaded table is the
\* table load_data returned for the file: same columns, same records, same
\* order.
C8_TableNeverMutated ==
    /\ df = read_csv(file)
    /\ cache[DATA_URL] = df

\* A Dashboard run whose year filter and industry selection both dropped
\* records and that showed the raw table.
C8_Witness ==
    /\ has("df_filtered_industries")
    /\ "Raw Data" \in run.views
    /\ Len(local("df_kpi_filtered").rows) < Len(df.rows)
    /\ Len(local("df_filtered_industries").rows) < Len(local("df_kpi_filtered").rows)

\* C9: the cumulative series has one entry per year of the KPI table, in
\* ascending order of year, each the sum of the values of the records up to
\* that year; its last entry is the total of the table.
C9_CumulativeSeries ==
    has("cumulative_value") =>
        LET rows == local("df_kpi_filtered").rows
            years == {rows[i]["Year"] : i \in DOMAIN rows}
            C == local("cumulative_value").rows
        IN /\ Len(C) = Cardinality(years)
           /\ \A i \in DOMAIN C : C[i]["Year"] \in years
           /\ \A i, j \in DOMAIN C : i < j => C[i]["Year"] < C[j]["Year"]
           /\ \A i \in DOMAIN C :
                C[i]["Number of Employees"] =
                    Total(SelectSeq(rows, LAMBDA r : r["Year"] <= C[i]["Year"]))
           /\ C # <<>> => C[Len(C)]["Number of Employees"] = local("total_value")

\* The KPI table lists a later year before an earlier one.
C9_Witness ==
    /\ has("cumulative_value")
    /\ Len(local("cumulative_value").rows) = 2
    /\ local("df_kpi_filtered").rows[1]["Year"] > local("df_kpi_filtered").rows[2]["Year"]

\* C10: on the Filter Data page the year view and its download are the
\* loaded table filtered by Year alone, and the industry view and its
\* download are the loaded table filtered by ISIC Rev 3 alone.
C10_FiltersNotComposed ==
    /\ has("df_filtered_year") =>
        /\ local("df_filtered_year").rows =
             SelectSeq(df.rows, LAMBDA r : PyInt(r["Year"]) = local("year_filter"))
        /\ has("csv_year") =>
            /\ local("csv_year") = to_csv(local("df_filtered_year"))
            /\ run.buttons["Download Filtered Year Data"].data = local("csv_year")
    /\ has("df_filtered_industry") =>
        /\ local("df_filtered_industry").rows =
             SelectSeq(df.rows, LAMBDA r : PyStr(r["ISIC Rev 3"]) = local("industry_filter"))
        /\ has("csv_industry") =>
            /\ local("csv_industry") = to_csv(local("df_filtered_industry"))
            /\ "Download Filtered Industry Data" \in DOMAIN run.buttons =>
                 run.buttons["Download Filtered Industry Data"].data = local("csv_industry")
    /\ download # NoDownload =>
        download.data \in {local("csv_year"), local("csv_industry")}

\* Both selections were changed, the two views differ, and the year data was
\* downloaded.
C10_Witness ==
    /\ has("csv_industry")
    /\ df.rows # <<>>
    /\ local("year_filter") # local("year_options")[Len(local("year_options"))]
    /\ local("industry_filter") # local("industry_options")[1]
    /\ local("df_filtered_year").rows # local("df_filtered_industry").rows
    /\ local("df_filtered_year").rows # <<>>
    /\ download.data = local("csv_year")

====
